---- MODULE Spec2Model ----
(***************************************************************************)
(* A model of the cipher_breaker package: the substitution codec, the      *)
(* n-gram transition tensors, the plausibility score, the key mutations    *)
(* and the search loop prolom_substitute of the four engines               *)
(* (MetropolisHastings, MetropolisHastings2D/3D/4D).                       *)
(*                                                                         *)
(* Texts and keys are sequences of one-character strings.  A call that     *)
(* raises in Python is modelled by a *_raises predicate beside the         *)
(* operator that gives the value of a call that returns.                   *)
(***************************************************************************)
EXTENDS Integers, Sequences, FiniteSets, TLC

(***************************************************************************)
(* Bounds of the model.                                                    *)
(***************************************************************************)
\* Number of alphabet symbols kept (the program's alphabet has 27).
AlphabetSize == 3
\* Longest text handed to the codec.
MaxTextLen == 3
\* Longest text handed to the tensor builder.
MaxTensorLen == 5
\* Longest score trajectory (plausibility_scores) an engine instance grows.
MaxTrajectory == 3
\* Number of generate_random_key calls of one key-generation session.
MaxKeyCalls == 3
\* Number of values a seeded np.random yields.
MaxDraws == 4
\* The largest iteration budget of a call whose temperatures are followed.
MaxBudget == 6400

(***************************************************************************)
(* Alphabet and helpers on sequences.                                      *)
(***************************************************************************)
Letters == <<"A", "B", "C", "D", "E", "F", "G", "H">>

\* self.alphabet, cut to AlphabetSize symbols.
alphabet == SubSeq(Letters, 1, AlphabetSize)

\* A character that is not in the alphabet.
Foreign == "?"

Range(s) == {s[i] : i \in DOMAIN s}

Chars == Range(alphabet) \cup {Foreign}

SeqsUpTo(S, n) == UNION {[1..k -> S] : k \in 0..n}

Min(S) == CHOOSE x \in S : \A y \in S : x <= y

Max(S) == CHOOSE x \in S : \A y \in S : x >= y

\* np.where(arr == c)[0]: the positions of c in arr.
where(arr, c) == {i \in DOMAIN arr : arr[i] = c}

\* key[a], key[b] = key[b], key[a]
Swap(key, a, b) == [key EXCEPT ![a] = key[b], ![b] = key[a]]

\* A key as the specification defines it: a permutation of the alphabet.
IsPermutation(key) ==
    /\ Len(key) = Len(alphabet)
    /\ \A c \in Range(alphabet) : Cardinality(where(key, c)) = 1

KeyPermutations(a) == {k \in [1..Len(a) -> Range(a)] : \A c \in Range(a) : where(k, c) # {}}

(***************************************************************************)
(* The codec: substitute_encrypt and substitute_decrypt.                   *)
(***************************************************************************)
\* key_array[np.where(self.alphabet == char)[0][0]] if char in self.alphabet else char
encrypt_char(char, key) ==
    IF where(alphabet, char) # {} THEN key[Min(where(alphabet, char))] ELSE char

\* The key is shorter than the position of an alphabet character: IndexError.
substitute_encrypt_raises(plaintext, key) ==
    \E i \in DOMAIN plaintext :
        /\ where(alphabet, plaintext[i]) # {}
        /\ Min(where(alphabet, plaintext[i])) > Len(key)

substitute_encrypt(plaintext, key) ==
    [i \in 1..Len(plaintext) |-> encrypt_char(plaintext[i], key)]

\* substitute_decrypt substituting in the direction of substitute_encrypt
decrypt_char_mut(char, key) ==
    IF where(alphabet, char) # {} THEN key[Min(where(alphabet, char))] ELSE char

\* self.alphabet[np.where(key_array == char)[0][0]] if char in key_array else char
decrypt_char(char, key) ==
    IF where(key, char) # {} THEN alphabet[Min(where(key, char))] ELSE char

\* The character stands in the key beyond the alphabet's length: IndexError.
substitute_decrypt_raises(ciphertext, key) ==
    \E i \in DOMAIN ciphertext :
        /\ where(key, ciphertext[i]) # {}
        /\ Min(where(key, ciphertext[i])) > Len(alphabet)

substitute_decrypt(ciphertext, key) ==
    [i \in 1..Len(ciphertext) |-> decrypt_char(ciphertext[i], key)]

(***************************************************************************)
(* Random draws.                                                           *)
(***************************************************************************)
Injective(p) == \A x, y \in DOMAIN p : p[x] = p[y] => x = y

\* np.random.choice(a, size, replace): every sample the call can return.
choice(a, size, replace) ==
    {[k \in 1..size |-> a[p[k]]] :
        p \in {q \in [1..size -> 1..Len(a)] : replace \/ Injective(q)}}

\* range(len(self.alphabet)), as positions counted from 1.
Positions == [k \in 1..Len(alphabet) |-> k]

\* generate_random_key with replace=True in place of replace=False
generate_random_key_mut == choice(alphabet, Len(alphabet), TRUE)

\* "".join(np.random.choice(self.alphabet, size=len(self.alphabet), replace=False))
generate_random_key == choice(alphabet, Len(alphabet), FALSE)

(***************************************************************************)
(* N-gram windows and transition tensors.                                  *)
(***************************************************************************)
Variants == {"base", "2D", "3D", "4D"}

\* The window length of an engine: its get_bigrams slices text[i : i + n].
Order(v) == CASE v = "base" -> 2 [] v = "2D" -> 2 [] v = "3D" -> 3 [] v = "4D" -> 4

\* The cells of an order-n tensor over the alphabet.
NGrams(n) == [1..n -> Range(alphabet)]

\* [text[i : i + n] for i in range(len(text) - (n - 1))]
get_bigrams(text, n) ==
    [k \in 1..(IF Len(text) >= n THEN Len(text) - n + 1 ELSE 0) |-> SubSeq(text, k, k + n - 1)]

\* np.where(self.alphabet == c)[0][0] on an empty result: IndexError.
transition_matrix_raises(bigrams) ==
    \E k \in DOMAIN bigrams : \E j \in DOMAIN bigrams[k] : where(alphabet, bigrams[k][j]) = {}

\* transition_matrix without TM[TM == 0] = 1
transition_matrix_mut(bigrams, n) ==
    [g \in NGrams(n) |-> Cardinality(where(bigrams, g))]

\* TM[i, j, ...] += 1 for each window, then TM[TM == 0] = 1
transition_matrix(bigrams, n) ==
    [g \in NGrams(n) |->
        LET count == Cardinality(where(bigrams, g))
        IN  IF count = 0 THEN 1 ELSE count]

(***************************************************************************)
(* The plausibility score.  Reference tensors hold powers of two and       *)
(* np.log is taken to base 2, which is exact on them: every score is the   *)
(* program's score divided by ln 2, so that the order of two scores and    *)
(* the sign of their difference are the program's.                         *)
(***************************************************************************)
RECURSIVE log(_)
log(x) == IF x <= 1 THEN 0 ELSE 1 + log(x \div 2)

RECURSIVE Pow2(_)
Pow2(k) == IF k = 0 THEN 1 ELSE 2 * Pow2(k - 1)

\* TM_ref.ndim: the number of dimensions of a reference tensor.
RefOrder(ref) == Len(CHOOSE g \in DOMAIN ref : TRUE)

\* The last k indices of the cell g: numpy broadcasting aligns the trailing
\* dimensions of the two tensors.
Trailing(g, k) == SubSeq(g, Len(g) - k + 1, Len(g))

\* np.sum(np.log(TM_ref) * TM_obs) over the cells that extend prefix by one
\* of the symbols alphabet[a], alphabet[a + 1], ...; ref has m dimensions,
\* obs has n, and the product has Max({m, n}).
RECURSIVE SumCells(_, _, _, _, _, _)
SumCells(ref, m, obs, n, prefix, a) ==
    IF a > Len(alphabet) THEN 0
    ELSE LET g == Append(prefix, alphabet[a])
         IN  (IF Len(g) = Max({m, n})
              THEN log(ref[Trailing(g, m)]) * obs[Trailing(g, n)]
              ELSE SumCells(ref, m, obs, n, g, 1))
             + SumCells(ref, m, obs, n, prefix, a + 1)

plausibility_raises(txt, n) == transition_matrix_raises(get_bigrams(txt, n))

plausibility(txt, ref, n) ==
    SumCells(ref, RefOrder(ref), transition_matrix(get_bigrams(txt, n), n), n, <<>>, 1)

\* A reference tensor: each n-gram of the corpus counted, as a power of two.
RefTensor(corpus, n) ==
    [g \in NGrams(n) |-> Pow2(Cardinality(where(get_bigrams(corpus, n), g)))]

(***************************************************************************)
(* Key mutations.                                                          *)
(***************************************************************************)
\* The simple permutation draws a, b from range(len(self.alphabet)):
\* key[a] on a key shorter than the alphabet is an IndexError.
simple_swap_raises(key, a, b) == a > Len(key) \/ b > Len(key)

\* key[a], key[b] = key[b], key[a] with only key[a] assigned
simple_swap_mut(key, a, b) == [key EXCEPT ![a] = key[b]]

\* a, b = np.random.choice(len(self.alphabet), 2, replace=False); swap them
simple_swap(key, a, b) == Swap(key, a, b)

\* A window all of whose characters are in the alphabet (the others: continue).
InAlphabet(bg) == \A j \in DOMAIN bg : where(alphabet, bg[j]) # {}

\* The scan "if score < worst_score: worst_bigram = bg" from window k on;
\* worst is the position of the worst window so far, 0 for None
\* (worst_score = float("inf")).
RECURSIVE ScanWorst(_, _, _, _)
ScanWorst(bigrams, ref, k, worst) ==
    IF k > Len(bigrams) THEN worst
    ELSE IF ~InAlphabet(bigrams[k]) THEN ScanWorst(bigrams, ref, k + 1, worst)
    ELSE IF worst = 0 \/ ref[bigrams[k]] < ref[bigrams[worst]]
         THEN ScanWorst(bigrams, ref, k + 1, k)
         ELSE ScanWorst(bigrams, ref, k + 1, worst)

\* MetropolisHastings2D.mutate_key_smart, the branch on bad bigrams.
smart_swap_2d(key, decrypted_text, ref) ==
    LET bigrams == get_bigrams(decrypted_text, 2)
        worst   == ScanWorst(bigrams, ref, 1, 0)
    IN  IF worst = 0 THEN key
        ELSE LET idx1 == where(key, bigrams[worst][1])
                 idx2 == where(key, bigrams[worst][2])
             IN  IF idx1 # {} /\ idx2 # {} THEN Swap(key, Min(idx1), Min(idx2)) ELSE key

\* found_idxs = [idx[0] for idx in idxs if idx.size > 0], from position j on.
RECURSIVE FoundIdxs(_, _, _)
FoundIdxs(key, gram, j) ==
    IF j > Len(gram) THEN <<>>
    ELSE IF where(key, gram[j]) # {}
         THEN <<Min(where(key, gram[j]))>> \o FoundIdxs(key, gram, j + 1)
         ELSE FoundIdxs(key, gram, j + 1)

\* MetropolisHastings3D/4D.mutate_key_smart, the branch on bad n-grams.
smart_swap_nd(key, decrypted_text, ref, n) ==
    LET grams == get_bigrams(decrypted_text, n)
        worst == ScanWorst(grams, ref, 1, 0)
    IN  IF worst = 0 THEN key
        ELSE LET found_idxs == FoundIdxs(key, grams[worst], 1)
             IN  IF Len(found_idxs) >= 2
                 THEN Swap(key, found_idxs[1], found_idxs[2])
                 ELSE key

\* score = TM_ref[i, j(, k(, l))] on a tensor of another number of dimensions,
\* reached at the first window whose characters are all in the alphabet:
\* with too few dimensions the indexing is an IndexError, with too many the
\* score is an array and "if score < worst_score" is a ValueError.
smart_swap_raises(v, decrypted_text, ref) ==
    /\ RefOrder(ref) # Order(v)
    /\ \E k \in DOMAIN get_bigrams(decrypted_text, Order(v)) :
           InAlphabet(get_bigrams(decrypted_text, Order(v))[k])

smart_swap_error(v, ref) ==
    IF RefOrder(ref) < Order(v) THEN "IndexError" ELSE "ValueError"

\* The smart branch of the engine variant v.
smart_swap(v, key, decrypted_text, ref) ==
    IF v = "2D" THEN smart_swap_2d(key, decrypted_text, ref)
    ELSE smart_swap_nd(key, decrypted_text, ref, Order(v))

(***************************************************************************)
(* Acceptance rules.                                                       *)
(***************************************************************************)
\* q = p_candidate / p_current; q >= 1
q_above_one_mut(p_cand, p_cur) ==
    IF p_cur > 0 THEN p_cand >= p_cur
    ELSE IF p_cur = 0 THEN p_cand > 0
    ELSE p_cand <= p_cur

\* q = p_candidate / p_current; q > 1, with numpy's division by 0.0
\* (inf for a positive numerator, nan for 0 / 0; nan > 1 is False).
q_above_one(p_cand, p_cur) ==
    IF p_cur > 0 THEN p_cand > p_cur
    ELSE IF p_cur = 0 THEN p_cand > 0
    ELSE p_cand < p_cur

\* Base engine: if q > 1 or np.random.uniform(0, 1) < 0.01; u_low is the
\* outcome of the draw falling below 0.01.
base_accepts(p_cand, p_cur, u_low) == q_above_one(p_cand, p_cur) \/ u_low

\* Annealing engines: the draw is below accept_prob; accept_prob is 1 when
\* p_candidate >= p_current (the temperature is positive), and otherwise
\* exp(delta) in [0, 1), which the draw is below (u_below) or not.
anneal_accepts(p_cand, p_cur, u_below) == p_cand >= p_cur \/ u_below

\* if p_candidate > best_score: best_score, best_key = ..., without the test
best_update_mut(best, p_best, cand, p_cand) == <<cand, p_cand>>

\* if p_candidate > best_score: best_score, best_key = p_candidate, candidate_key
best_update(best, p_best, cand, p_cand) ==
    IF p_cand > p_best THEN <<cand, p_cand>> ELSE <<best, p_best>>

(***************************************************************************)
(* The engine: one instance, its prolom_substitute calls.                  *)
(***************************************************************************)
VARIABLES
    variant,              \* the engine class of the instance
    text,                 \* the ciphertext of the calls
    TM_ref,               \* the reference tensor of the calls
    self_start_key,       \* self.start_key
    plausibility_scores,  \* self.plausibility_scores
    pc,                   \* "idle", "loop", "done" or "raised"
    iter,                 \* the iteration budget of the call
    start_key,            \* the start_key argument of the call
    i,                    \* the number of loop iterations completed
    current_key, decrypted_current, p_current,
    candidate_key, p_candidate,
    best_key, best_score,
    ret,                  \* the returned tuple
    raised,               \* the exception that ended the call
    max_seen,             \* history: the largest score evaluated in the call
    fn, fn_in, fn_out,    \* a library function applied on its own
    seed,                 \* the values the seeded np.random yields, in order
    rng,                  \* np.random: the number of values drawn since seeding
    drawn,                \* history: the values the call in progress has drawn
    prev,                 \* history: the outcome of the previous seeded call
    other,                \* a second engine instance, while it is not running
    wrapper               \* the CipherBreakerWrapper around the instance

engineVars == <<variant, text, TM_ref, self_start_key, plausibility_scores, pc,
                iter, start_key, i, current_key, decrypted_current, p_current,
                candidate_key, p_candidate, best_key, best_score, ret, raised,
                max_seen>>

fnVars == <<fn, fn_in, fn_out>>

seedVars == <<seed, rng, drawn, prev, other>>

vars == <<engineVars, fnVars, seedVars, wrapper>>

NoKey == <<>>

NoScore == 0 - 1

\* Key strings that are not permutations of the alphabet: too short, a
\* duplicate symbol, a foreign symbol.
InvalidKeys ==
    { SubSeq(alphabet, 1, Len(alphabet) - 1),
      [alphabet EXCEPT ![Len(alphabet)] = alphabet[1]],
      [alphabet EXCEPT ![Len(alphabet)] = Foreign] }

\* The alphabet backwards.
Reversed == [k \in 1..Len(alphabet) |-> alphabet[Len(alphabet) + 1 - k]]

\* The start_key arguments of the constructor: two permutations and the
\* invalid keys.
SuppliedKeys == {alphabet, Reversed} \cup InvalidKeys

\* Ciphertexts of an order-n engine, of two windows: AA..A, AA..AB, ABAB..
\* and a text with a character outside the alphabet.
EngineTexts(n) ==
    { [k \in 1..(n + 1) |-> alphabet[1]],
      [k \in 1..(n + 1) |-> IF k = n + 1 THEN alphabet[2] ELSE alphabet[1]],
      [k \in 1..(n + 1) |-> alphabet[2 - (k % 2)]],
      [k \in 1..(n + 1) |-> IF k = 2 THEN Foreign ELSE alphabet[1]] }

\* Corpora of the reference tensors: none (every cell 1) and AA..AB.
RefCorpora(n) ==
    { <<>>,
      [k \in 1..(n + 2) |-> IF k = n + 2 THEN alphabet[2] ELSE alphabet[1]] }

NoCall ==
    /\ iter = 0 /\ start_key = NoKey /\ i = 0
    /\ current_key = NoKey /\ decrypted_current = <<>> /\ p_current = NoScore
    /\ candidate_key = NoKey /\ p_candidate = NoScore
    /\ best_key = NoKey /\ best_score = NoScore
    /\ ret = <<>> /\ raised = "" /\ max_seen = NoScore

\* np.random is not seeded, there is one instance and no wrapper.
HostOff ==
    /\ seed = <<>> /\ rng = 0 /\ drawn = <<>> /\ prev = <<>> /\ other = <<>>
    /\ wrapper = <<>>

\* __init__ with a start_key argument: self.start_key = start_key;
\* self.plausibility_scores = []
Init ==
    /\ variant \in Variants
    /\ text \in EngineTexts(Order(variant))
    /\ TM_ref \in {RefTensor(c, Order(variant)) : c \in RefCorpora(Order(variant))}
    /\ self_start_key \in SuppliedKeys
    /\ plausibility_scores = <<>>
    /\ pc = "idle"
    /\ NoCall
    /\ fn = "engine" /\ fn_in = <<>> /\ fn_out = <<>>
    /\ HostOff

\* The call ends with an exception.
Raise(e) ==
    /\ pc' = "raised"
    /\ raised' = e
    /\ UNCHANGED <<plausibility_scores, i, current_key, decrypted_current, p_current,
                   candidate_key, p_candidate, best_key, best_score, ret, max_seen>>

\* prolom_substitute(text, TM_ref, it, self.start_key) up to the loop.
Call(it) ==
    /\ pc \in {"idle", "done"}
    /\ Len(plausibility_scores) + 1 + it <= MaxTrajectory
    /\ iter' = it
    /\ start_key' = self_start_key
    /\ UNCHANGED <<variant, text, TM_ref, self_start_key, fnVars>>
    /\ IF substitute_decrypt_raises(text, self_start_key)
          \/ plausibility_raises(substitute_decrypt(text, self_start_key), Order(variant))
       THEN /\ pc' = "raised"
            /\ raised' = "IndexError"
            /\ i' = 0
            /\ current_key' = self_start_key
            /\ decrypted_current' = <<>> /\ p_current' = NoScore
            /\ candidate_key' = NoKey /\ p_candidate' = NoScore
            /\ best_key' = NoKey /\ best_score' = NoScore
            /\ ret' = <<>> /\ max_seen' = NoScore
            /\ UNCHANGED plausibility_scores
       ELSE \E d \in {substitute_decrypt(text, self_start_key)} :
            \E p \in {plausibility(d, TM_ref, Order(variant))} :
                /\ pc' = "loop"
                /\ raised' = ""
                /\ i' = 0
                /\ current_key' = self_start_key
                /\ decrypted_current' = d
                /\ p_current' = p
                /\ plausibility_scores' = Append(plausibility_scores, p)
                /\ candidate_key' = NoKey /\ p_candidate' = NoScore
                /\ best_key' = IF variant = "base" THEN NoKey ELSE self_start_key
                /\ best_score' = IF variant = "base" THEN NoScore ELSE p
                /\ ret' = <<>>
                /\ max_seen' = p

\* The candidate of mutate_key_smart for the draws (branch, a, b).
mutate_key_smart(v, key, decrypted_text, ref, branch, a, b) ==
    IF branch = "simple" THEN simple_swap(key, a, b)
    ELSE smart_swap(v, key, decrypted_text, ref)

\* decrypted_candidate = substitute_decrypt(text, candidate_key) and
\* p_candidate = plausibility(decrypted_candidate, TM_ref) raise.
evaluate_raises(cand) ==
    \/ substitute_decrypt_raises(text, cand)
    \/ plausibility_raises(substitute_decrypt(text, cand), Order(variant))

evaluate(cand) == plausibility(substitute_decrypt(text, cand), TM_ref, Order(variant))

\* One iteration of the loop of MetropolisHastings.prolom_substitute.
IterateBase(a, b, u_low) ==
    /\ pc = "loop" /\ variant = "base" /\ i < iter
    /\ UNCHANGED <<variant, text, TM_ref, self_start_key, iter, start_key, fnVars>>
    /\ IF simple_swap_raises(current_key, a, b) THEN Raise("IndexError")
       ELSE \E cand \in {simple_swap(current_key, a, b)} :
                IF evaluate_raises(cand) THEN Raise("IndexError")
                ELSE \E p \in {evaluate(cand)} :
                     LET acc == base_accepts(p, p_current, u_low)
                         cur == IF acc THEN p ELSE p_current
                     IN  /\ candidate_key' = cand
                         /\ p_candidate' = p
                         /\ current_key' = IF acc THEN cand ELSE current_key
                         /\ p_current' = cur
                         /\ plausibility_scores' = Append(plausibility_scores, cur)
                         /\ i' = i + 1
                         /\ max_seen' = Max({max_seen, p})
                         /\ UNCHANGED <<pc, raised, decrypted_current, best_key,
                                        best_score, ret>>

\* One iteration of the loop of MetropolisHastings2D.prolom_substitute, which
\* MetropolisHastings3D inherits: the score is appended before the decision.
Iterate2D(branch, a, b, u_below) ==
    /\ pc = "loop" /\ variant \in {"2D", "3D"} /\ i < iter
    /\ UNCHANGED <<variant, text, TM_ref, self_start_key, iter, start_key, fnVars>>
    /\ IF branch = "simple" /\ simple_swap_raises(current_key, a, b) THEN Raise("IndexError")
       ELSE IF branch = "smart" /\ smart_swap_raises(variant, decrypted_current, TM_ref)
       THEN Raise(smart_swap_error(variant, TM_ref))
       ELSE \E cand \in {mutate_key_smart(variant, current_key, decrypted_current,
                                             TM_ref, branch, a, b)} :
                IF evaluate_raises(cand) THEN Raise("IndexError")
                ELSE \E p \in {evaluate(cand)} :
                     \E best \in {best_update(best_key, best_score, cand, p)} :
                     LET acc  == anneal_accepts(p, p_current, u_below)
                     IN  /\ candidate_key' = cand
                         /\ p_candidate' = p
                         /\ plausibility_scores' = Append(plausibility_scores, p_current)
                         /\ best_key' = best[1]
                         /\ best_score' = best[2]
                         /\ current_key' = IF acc THEN cand ELSE current_key
                         /\ p_current' = IF acc THEN p ELSE p_current
                         /\ i' = i + 1
                         /\ max_seen' = Max({max_seen, p})
                         /\ UNCHANGED <<pc, raised, decrypted_current, ret>>

\* One iteration of the loop of MetropolisHastings4D.prolom_substitute.
Iterate4D(branch, a, b, u_below) ==
    /\ pc = "loop" /\ variant = "4D" /\ i < iter
    /\ UNCHANGED <<variant, text, TM_ref, self_start_key, iter, start_key, fnVars>>
    /\ IF branch = "simple" /\ simple_swap_raises(current_key, a, b) THEN Raise("IndexError")
       ELSE IF branch = "smart" /\ smart_swap_raises(variant, decrypted_current, TM_ref)
       THEN Raise(smart_swap_error(variant, TM_ref))
       ELSE \E cand \in {mutate_key_smart(variant, current_key, decrypted_current,
                                             TM_ref, branch, a, b)} :
                IF evaluate_raises(cand) THEN Raise("IndexError")
                ELSE \E p \in {evaluate(cand)} :
                     \E best \in {best_update(best_key, best_score, cand, p)} :
                     LET acc  == anneal_accepts(p, p_current, u_below)
                         cur  == IF acc THEN p ELSE p_current
                     IN  /\ candidate_key' = cand
                         /\ p_candidate' = p
                         /\ best_key' = best[1]
                         /\ best_score' = best[2]
                         /\ current_key' = IF acc THEN cand ELSE current_key
                         /\ p_current' = cur
                         /\ plausibility_scores' = Append(plausibility_scores, cur)
                         /\ i' = i + 1
                         /\ max_seen' = Max({max_seen, p})
                         /\ UNCHANGED <<pc, raised, decrypted_current, ret>>

\* The key and the score prolom_substitute returns.
returned_key == IF variant = "base" THEN current_key ELSE best_key

returned_score == IF variant = "base" THEN p_current ELSE best_score

\* best_decrypted_text = self.substitute_decrypt(text, key); return key, text, score
Return ==
    /\ pc = "loop" /\ i = iter
    /\ pc' = "done"
    /\ ret' = <<returned_key, substitute_decrypt(text, returned_key), returned_score>>
    /\ UNCHANGED <<variant, text, TM_ref, self_start_key, plausibility_scores, iter,
                   start_key, i, current_key, decrypted_current, p_current,
                   candidate_key, p_candidate, best_key, best_score, raised,
                   max_seen, fnVars>>

\* np.random.choice(len(self.alphabet), 2, replace=True)
SwapDraws_mut(branch) == IF branch = "simple" THEN choice(Positions, 2, TRUE) ELSE {<<1, 2>>}

\* The two positions of np.random.choice(len(self.alphabet), 2, replace=False);
\* the smart branch draws none.
SwapDraws(branch) == IF branch = "simple" THEN choice(Positions, 2, FALSE) ELSE {<<1, 2>>}

\* The loop of a prolom_substitute call and its return.
RunLoop ==
    \/ \E d \in SwapDraws("simple"), u \in BOOLEAN :
           IterateBase(d[1], d[2], u) /\ UNCHANGED <<seedVars, wrapper>>
    \/ \E br \in {"simple", "smart"}, u \in BOOLEAN :
           \E d \in SwapDraws(br) :
               Iterate2D(br, d[1], d[2], u) /\ UNCHANGED <<seedVars, wrapper>>
    \/ \E br \in {"simple", "smart"}, u \in BOOLEAN :
           \E d \in SwapDraws(br) :
               Iterate4D(br, d[1], d[2], u) /\ UNCHANGED <<seedVars, wrapper>>
    \/ Return /\ UNCHANGED <<seedVars, wrapper>>

Next ==
    \/ \E it \in 0..MaxTrajectory : Call(it) /\ UNCHANGED <<seedVars, wrapper>>
    \/ RunLoop

Spec == Init /\ [][Next]_vars

(***************************************************************************)
(* Calls with a reference tensor whose number of dimensions is not the     *)
(* engine's window length.                                                 *)
(***************************************************************************)
\* The TM_ref arguments of 2, 3 or 4 dimensions other than n.
MismatchedRefs(n) ==
    UNION {{RefTensor(c, m) : c \in RefCorpora(m)} : m \in {2, 3, 4} \ {n}}

InitDim ==
    /\ variant \in Variants
    /\ text \in EngineTexts(Order(variant))
    /\ TM_ref \in MismatchedRefs(Order(variant))
    /\ self_start_key \in {alphabet, Reversed}
    /\ plausibility_scores = <<>>
    /\ pc = "idle"
    /\ NoCall
    /\ fn = "engine" /\ fn_in = <<>> /\ fn_out = <<>>
    /\ HostOff

SpecDim == InitDim /\ [][Next]_vars

(***************************************************************************)
(* Calls under a seeded np.random.  The generator is the sequence of       *)
(* values the seed determines and the number of them drawn so far; each    *)
(* np.random call takes the next value and reads it as its own kind of     *)
(* result.                                                                 *)
(***************************************************************************)
\* The values of the generator, before a call reads them.
Raw == {0, 1, 2}

Seeds == [1..MaxDraws -> Raw]

\* np.random.rand() < 0.5
below_half(r) == r % 2 = 0

\* np.random.uniform(0, 1) < 0.01, and np.random.uniform(0, 1) < accept_prob
\* for accept_prob < 1: the value is below the threshold or above it.
below_threshold(r) == r = 0

\* np.random.choice(len(self.alphabet), 2, replace=False)
choice_pair(r) == <<1 + (r % Len(alphabet)), 1 + ((r + 1) % Len(alphabet))>>

\* The generator yields n more values, which the call in progress draws.
Consume(n) ==
    /\ rng' = rng + n
    /\ drawn' = drawn \o SubSeq(seed, rng + 1, rng + n)

\* An iteration of the base engine on the generator: the choice, then the
\* uniform draw unless q > 1 ("or" evaluates it only then).
SeededIterateBase ==
    /\ rng + 2 <= Len(seed)
    /\ IterateBase(choice_pair(seed[rng + 1])[1], choice_pair(seed[rng + 1])[2],
                   below_threshold(seed[rng + 2]))
    /\ IF pc' = "raised" \/ q_above_one(p_candidate', p_current)
       THEN Consume(1) ELSE Consume(2)
    /\ UNCHANGED <<seed, prev, other, wrapper>>

\* An iteration of the 2D or 3D engine on the generator: rand() for the
\* branch, the choice in the simple branch, then the uniform draw.
SeededIterate2D ==
    /\ rng + 3 <= Len(seed)
    /\ IF below_half(seed[rng + 1])
       THEN /\ Iterate2D("simple", choice_pair(seed[rng + 2])[1],
                         choice_pair(seed[rng + 2])[2], below_threshold(seed[rng + 3]))
            /\ IF pc' = "raised" THEN Consume(2) ELSE Consume(3)
       ELSE /\ Iterate2D("smart", 1, 2, below_threshold(seed[rng + 2]))
            /\ IF pc' = "raised" THEN Consume(1) ELSE Consume(2)
    /\ UNCHANGED <<seed, prev, other, wrapper>>

\* An iteration of the 4D engine on the generator, with the same draws.
SeededIterate4D ==
    /\ rng + 3 <= Len(seed)
    /\ IF below_half(seed[rng + 1])
       THEN /\ Iterate4D("simple", choice_pair(seed[rng + 2])[1],
                         choice_pair(seed[rng + 2])[2], below_threshold(seed[rng + 3]))
            /\ IF pc' = "raised" THEN Consume(2) ELSE Consume(3)
       ELSE /\ Iterate4D("smart", 1, 2, below_threshold(seed[rng + 2]))
            /\ IF pc' = "raised" THEN Consume(1) ELSE Consume(2)
    /\ UNCHANGED <<seed, prev, other, wrapper>>

SeededReturn == Return /\ UNCHANGED <<seedVars, wrapper>>

\* The outcome of the call that has returned.
Outcome ==
    [iter |-> iter, drawn |-> drawn, trajectory |-> plausibility_scores, ret |-> ret]

\* np.random.seed(s); prolom_substitute(text, TM_ref, it, self.start_key)
SeededCall(it) ==
    /\ Call(it)
    /\ rng' = 0
    /\ drawn' = <<>>
    /\ prev' = IF pc = "done" THEN <<Outcome>> ELSE prev
    /\ UNCHANGED <<seed, other, wrapper>>

\* A new instance of the engine class with the same start_key argument.
Construct ==
    /\ pc = "done"
    /\ plausibility_scores' = <<>>
    /\ pc' = "idle"
    /\ prev' = <<Outcome>>
    /\ iter' = 0 /\ start_key' = NoKey /\ i' = 0
    /\ current_key' = NoKey /\ decrypted_current' = <<>> /\ p_current' = NoScore
    /\ candidate_key' = NoKey /\ p_candidate' = NoScore
    /\ best_key' = NoKey /\ best_score' = NoScore
    /\ ret' = <<>> /\ raised' = "" /\ max_seen' = NoScore
    /\ UNCHANGED <<variant, text, TM_ref, self_start_key, fnVars, seed, rng, drawn,
                   other, wrapper>>

\* Ciphertexts of the seeded calls: AA..AB and ABAB..
SeededTexts(n) ==
    { [k \in 1..(n + 1) |-> IF k = n + 1 THEN alphabet[2] ELSE alphabet[1]],
      [k \in 1..(n + 1) |-> alphabet[2 - (k % 2)]] }

InitSeed ==
    /\ variant \in Variants
    /\ text \in SeededTexts(Order(variant))
    /\ TM_ref \in {RefTensor(c, Order(variant)) : c \in RefCorpora(Order(variant))}
    /\ self_start_key = alphabet
    /\ plausibility_scores = <<>>
    /\ pc = "idle"
    /\ NoCall
    /\ fn = "engine" /\ fn_in = <<>> /\ fn_out = <<>>
    /\ seed \in Seeds
    /\ rng = 0 /\ drawn = <<>> /\ prev = <<>> /\ other = <<>>
    /\ wrapper = <<>>

NextSeed ==
    \/ \E it \in 0..MaxTrajectory : SeededCall(it)
    \/ SeededIterateBase
    \/ SeededIterate2D
    \/ SeededIterate4D
    \/ SeededReturn
    \/ Construct

SpecSeed == InitSeed /\ [][NextSeed]_vars

\* The seeded calls of one instance of the base engine, on the ciphertexts
\* AAA, AAB and ABA from a start key that is the alphabet or its reverse.
InitSeedBase ==
    /\ variant = "base"
    /\ text \in {t \in EngineTexts(Order(variant)) : Foreign \notin Range(t)}
    /\ TM_ref \in {RefTensor(c, Order(variant)) : c \in RefCorpora(Order(variant))}
    /\ self_start_key \in {alphabet, Reversed}
    /\ plausibility_scores = <<>>
    /\ pc = "idle"
    /\ NoCall
    /\ fn = "engine" /\ fn_in = <<>> /\ fn_out = <<>>
    /\ seed \in Seeds
    /\ rng = 0 /\ drawn = <<>> /\ prev = <<>> /\ other = <<>>
    /\ wrapper = <<>>

NextSeedBase ==
    \/ \E it \in 0..MaxTrajectory : SeededCall(it)
    \/ SeededIterateBase
    \/ SeededReturn

SpecSeedBase == InitSeedBase /\ [][NextSeedBase]_vars

(***************************************************************************)
(* Two instances of an engine class whose calls run interleaved (one       *)
(* thread each) on the same ciphertext and reference tensor.  np.random is *)
(* the module-level generator both draw from; it is seeded once, before    *)
(* the runs start.  The variables of the engine hold the instance whose    *)
(* thread is running, other holds the instance whose thread is waiting.    *)
(***************************************************************************)
\* The instance whose thread is running: its attributes and the locals of
\* its prolom_substitute call.
Running ==
    [self_start_key |-> self_start_key, plausibility_scores |-> plausibility_scores,
     pc |-> pc, iter |-> iter, start_key |-> start_key, i |-> i,
     current_key |-> current_key, decrypted_current |-> decrypted_current,
     p_current |-> p_current, candidate_key |-> candidate_key,
     p_candidate |-> p_candidate, best_key |-> best_key, best_score |-> best_score,
     ret |-> ret, raised |-> raised, max_seen |-> max_seen, drawn |-> drawn]

\* An instance constructed with start_key key, before any call.
NewInstance(key) ==
    [self_start_key |-> key, plausibility_scores |-> <<>>,
     pc |-> "idle", iter |-> 0, start_key |-> NoKey, i |-> 0,
     current_key |-> NoKey, decrypted_current |-> <<>>,
     p_current |-> NoScore, candidate_key |-> NoKey,
     p_candidate |-> NoScore, best_key |-> NoKey, best_score |-> NoScore,
     ret |-> <<>>, raised |-> "", max_seen |-> NoScore, drawn |-> <<>>]

\* The scheduler runs the other thread.
Switch ==
    /\ other' = Running
    /\ self_start_key' = other.self_start_key
    /\ plausibility_scores' = other.plausibility_scores
    /\ pc' = other.pc /\ iter' = other.iter /\ start_key' = other.start_key
    /\ i' = other.i /\ current_key' = other.current_key
    /\ decrypted_current' = other.decrypted_current /\ p_current' = other.p_current
    /\ candidate_key' = other.candidate_key /\ p_candidate' = other.p_candidate
    /\ best_key' = other.best_key /\ best_score' = other.best_score
    /\ ret' = other.ret /\ raised' = other.raised /\ max_seen' = other.max_seen
    /\ drawn' = other.drawn
    /\ UNCHANGED <<variant, text, TM_ref, fnVars, seed, rng, prev, wrapper>>

\* prolom_substitute(text, TM_ref, it, self.start_key), the one call of the
\* instance.
ParCall(it) ==
    /\ pc = "idle"
    /\ Call(it)
    /\ UNCHANGED <<seedVars, wrapper>>

InitPar ==
    /\ variant \in Variants
    /\ text \in SeededTexts(Order(variant))
    /\ TM_ref \in {RefTensor(c, Order(variant)) : c \in RefCorpora(Order(variant))}
    /\ self_start_key = alphabet
    /\ plausibility_scores = <<>>
    /\ pc = "idle"
    /\ NoCall
    /\ fn = "engine" /\ fn_in = <<>> /\ fn_out = <<>>
    /\ seed \in Seeds
    /\ rng = 0 /\ drawn = <<>> /\ prev = <<>>
    /\ other = NewInstance(Reversed)
    /\ wrapper = <<>>

NextPar ==
    \/ \E it \in 0..MaxTrajectory : ParCall(it)
    \/ SeededIterateBase
    \/ SeededIterate2D
    \/ SeededIterate4D
    \/ SeededReturn
    \/ Switch

SpecPar == InitPar /\ [][NextPar]_vars

(***************************************************************************)
(* The temperature of the annealing engines.  A temperature is kept by its *)
(* natural logarithm in units of 1 / 10000, so that cooling_rate ** i is   *)
(* i times the logarithm of the rate; the logarithms are rounded towards   *)
(* the warmer side.                                                        *)
(***************************************************************************)
\* initial_temperature = 5.0: ln 5.0 = 1.6094
ln_initial_temperature == 16094

\* min_temperature = 0.01: ln 0.01 = -4.6052
ln_min_temperature == 0 - 46052

\* 2D, 3D: cooling_rate = np.exp(np.log(0.01) / iter)
ln_cooling_rate_2d(it) == ln_min_temperature \div it

\* 4D: cooling_rate = 0.999: ln 0.999 = -0.0010005
ln_cooling_rate_4d == 0 - 10

\* T of iteration k of a call with budget it:
\* 2D, 3D: T = max(min_temperature, initial_temperature * (cooling_rate ** i))
\* 4D:     T = initial_temperature * (cooling_rate ** i)
Temperature(v, it, k) ==
    IF v = "4D" THEN ln_initial_temperature + k * ln_cooling_rate_4d
    ELSE Max({ln_min_temperature, ln_initial_temperature + k * ln_cooling_rate_2d(it)})

\* The budgets of the calls followed.
Budgets == {0, 1, 2, 3, MaxBudget}

UnchangedButLoop ==
    UNCHANGED <<variant, text, TM_ref, self_start_key, plausibility_scores, start_key,
                current_key, decrypted_current, p_current, candidate_key,
                p_candidate, best_key, best_score, ret, raised, max_seen,
                fnVars, seedVars, wrapper>>

\* prolom_substitute(text, TM_ref, it, start_key) up to the loop, the keys
\* and the scores left out.
CoolCall(it) ==
    /\ pc = "idle"
    /\ pc' = "loop" /\ iter' = it /\ i' = 0
    /\ UnchangedButLoop

\* One iteration of the loop: for i in range(iter), with its temperature
\* Temperature(variant, iter, i).
CoolStep ==
    /\ pc = "loop" /\ i < iter
    /\ i' = i + 1
    /\ UNCHANGED <<pc, iter>>
    /\ UnchangedButLoop

CoolReturn ==
    /\ pc = "loop" /\ i = iter
    /\ pc' = "done"
    /\ UNCHANGED <<iter, i>>
    /\ UnchangedButLoop

InitCool ==
    /\ variant \in {"2D", "3D", "4D"}
    /\ text = <<>> /\ TM_ref = <<>>
    /\ self_start_key = alphabet
    /\ plausibility_scores = <<>>
    /\ pc = "idle"
    /\ NoCall
    /\ fn = "engine" /\ fn_in = <<>> /\ fn_out = <<>>
    /\ HostOff

NextCool ==
    \/ \E it \in Budgets : CoolCall(it)
    \/ CoolStep
    \/ CoolReturn

SpecCool == InitCool /\ [][NextCool]_vars

(***************************************************************************)
(* CipherBreakerWrapper around an engine instance: builder calls, then     *)
(* execute().  An attribute holds <<>> for None, or for an attribute that  *)
(* was never assigned, and <<v>> for the value v.  Files named by the      *)
(* builder calls can be read and written.                                  *)
(***************************************************************************)
None == <<>>

Some(v) == <<v>>

\* self.iterations = 1000
default_iterations == 1000

\* CipherBreakerWrapper.__init__: save_file_path is assigned, save_text_path
\* is not.
NewWrapper ==
    [pc |-> "build", iterations |-> default_iterations, text |-> None, TM_ref |-> None,
     save_file_path |-> None, save_text_path |-> <<>>, save_key_path |-> None,
     is_show_result |-> FALSE, is_show_plot |-> FALSE,
     error |-> "", result |-> <<>>, files |-> {}, printed |-> <<>>, plotted |-> <<>>]

\* The text arguments of set_text for an engine of order n: AA..AB and a
\* text with a character outside the alphabet.
WrapperTexts(n) ==
    { [k \in 1..(n + 1) |-> IF k = n + 1 THEN alphabet[2] ELSE alphabet[1]],
      [k \in 1..(n + 1) |-> IF k = 2 THEN Foreign ELSE alphabet[1]] }

\* A builder call assigns the attribute and returns self.
Build(w) ==
    /\ wrapper.pc = "build"
    /\ wrapper' = w
    /\ UNCHANGED <<engineVars, fnVars, seedVars>>

set_iterations == \E n \in 0..(MaxTrajectory - 1) : Build([wrapper EXCEPT !.iterations = n])

set_text ==
    \E t \in WrapperTexts(Order(variant)) : Build([wrapper EXCEPT !.text = Some(t)])

\* set_text_from_file on a file that holds one of the texts.
set_text_from_file ==
    \E t \in WrapperTexts(Order(variant)) : Build([wrapper EXCEPT !.text = Some(t)])

set_transition_matrix ==
    \E c \in RefCorpora(Order(variant)) :
        Build([wrapper EXCEPT !.TM_ref = Some(RefTensor(c, Order(variant)))])

save_text_to_file == Build([wrapper EXCEPT !.save_text_path = Some("text.txt")])

save_key_to_file == Build([wrapper EXCEPT !.save_key_path = Some("key.txt")])

show_result == \E flag \in BOOLEAN : Build([wrapper EXCEPT !.is_show_result = flag])

show_plot == \E flag \in BOOLEAN : Build([wrapper EXCEPT !.is_show_plot = flag])

\* self.cipher_breaker.start_key = start_key
set_start_key ==
    /\ wrapper.pc = "build"
    /\ self_start_key' = Reversed
    /\ UNCHANGED <<variant, text, TM_ref, plausibility_scores, pc, iter, start_key, i,
                   current_key, decrypted_current, p_current, candidate_key,
                   p_candidate, best_key, best_score, ret, raised, max_seen,
                   fnVars, seedVars, wrapper>>

\* self.cipher_breaker.start_key = self.cipher_breaker.generate_random_key()
generate_new_key ==
    /\ wrapper.pc = "build"
    /\ self_start_key' \in generate_random_key
    /\ UNCHANGED <<variant, text, TM_ref, plausibility_scores, pc, iter, start_key, i,
                   current_key, decrypted_current, p_current, candidate_key,
                   p_candidate, best_key, best_score, ret, raised, max_seen,
                   fnVars, seedVars, wrapper>>

\* execute() up to the call of prolom_substitute: the test of text and
\* TM_ref, then the arguments self.text and self.TM_ref.
ExecuteBegin ==
    /\ wrapper.pc = "build"
    /\ IF wrapper.text = None \/ wrapper.TM_ref = None
       THEN /\ wrapper' = [wrapper EXCEPT !.pc = "raised", !.error = "ValueError"]
            /\ UNCHANGED <<text, TM_ref>>
       ELSE /\ wrapper' = [wrapper EXCEPT !.pc = "calling"]
            /\ text' = wrapper.text[1]
            /\ TM_ref' = wrapper.TM_ref[1]
    /\ UNCHANGED <<variant, self_start_key, plausibility_scores, pc, iter, start_key, i,
                   current_key, decrypted_current, p_current, candidate_key,
                   p_candidate, best_key, best_score, ret, raised, max_seen,
                   fnVars, seedVars>>

\* self.cipher_breaker.prolom_substitute(self.text, self.TM_ref,
\*     self.iterations, self.cipher_breaker.start_key)
ExecuteCall ==
    /\ wrapper.pc = "calling"
    /\ Call(wrapper.iterations)
    /\ wrapper' = [wrapper EXCEPT !.pc = "running"]
    /\ UNCHANGED seedVars

\* An exception of prolom_substitute leaves execute().
ExecuteRaise ==
    /\ wrapper.pc = "running" /\ pc = "raised"
    /\ wrapper' = [wrapper EXCEPT !.pc = "raised", !.error = raised]
    /\ UNCHANGED <<engineVars, fnVars, seedVars>>

\* execute() after prolom_substitute has returned: "if self.save_text_path"
\* on an instance without that attribute is an AttributeError; otherwise the
\* files are written, the result printed, the scores plotted, and the tuple
\* returned.
ExecuteEnd ==
    /\ wrapper.pc = "running" /\ pc = "done"
    /\ wrapper' =
          IF wrapper.save_text_path = <<>>
          THEN [wrapper EXCEPT !.pc = "raised", !.error = "AttributeError"]
          ELSE [wrapper EXCEPT
                  !.pc = "returned",
                  !.result = Some(ret),
                  !.files = {<<wrapper.save_text_path[1], ret[2]>>}
                            \cup (IF wrapper.save_key_path # None
                                  THEN {<<wrapper.save_key_path[1], ret[1]>>} ELSE {}),
                  !.printed = IF wrapper.is_show_result THEN Some(ret) ELSE <<>>,
                  !.plotted = IF wrapper.is_show_plot
                              THEN Some(plausibility_scores) ELSE <<>>]
    /\ UNCHANGED <<engineVars, fnVars, seedVars>>

\* CipherBreakerWrapper(engine): the engine was constructed with a start key.
InitWrap ==
    /\ variant \in Variants
    /\ text = <<>> /\ TM_ref = <<>>
    /\ self_start_key = alphabet
    /\ plausibility_scores = <<>>
    /\ pc = "idle"
    /\ NoCall
    /\ fn = "engine" /\ fn_in = <<>> /\ fn_out = <<>>
    /\ seed = <<>> /\ rng = 0 /\ drawn = <<>> /\ prev = <<>> /\ other = <<>>
    /\ wrapper = NewWrapper

NextWrap ==
    \/ set_iterations
    \/ set_start_key
    \/ generate_new_key
    \/ set_text
    \/ set_text_from_file
    \/ set_transition_matrix
    \/ save_text_to_file
    \/ save_key_to_file
    \/ show_result
    \/ show_plot
    \/ ExecuteBegin
    \/ ExecuteCall
    \/ wrapper.pc = "running" /\ RunLoop
    \/ ExecuteRaise
    \/ ExecuteEnd

SpecWrap == InitWrap /\ [][NextWrap]_vars

(***************************************************************************)
(* The library functions applied on their own: the codec on a text and a   *)
(* valid key ("codec"), get_bigrams and transition_matrix on a text        *)
(* ("tensor"), repeated generate_random_key calls ("keys"), the key         *)
(* proposal of an engine on a key and a decrypted text ("mutate").         *)
(***************************************************************************)
\* No engine call is in progress and none was made.
EngineOff ==
    /\ variant = "base" /\ text = <<>> /\ TM_ref = <<>> /\ self_start_key = NoKey
    /\ plausibility_scores = <<>> /\ pc = "idle"
    /\ NoCall
    /\ HostOff

\* Decrypted texts of three windows for an engine of order n, over the first
\* two symbols of the alphabet, and one with a character outside it.
MutateTexts(n) ==
    [1..(n + 2) -> {alphabet[1], alphabet[2]}]
        \cup {[k \in 1..(n + 2) |-> IF k = 2 THEN Foreign ELSE alphabet[2 - (k % 2)]]}

\* The arguments of a key proposal: the engine class, a valid key, the
\* decrypted text and a reference tensor of the engine's order.
MutateInputs ==
    UNION {[v : {v}, key : KeyPermutations(alphabet), text : MutateTexts(Order(v)),
            ref : {RefTensor(c, Order(v)) : c \in RefCorpora(Order(v))}] : v \in Variants}

InitLib ==
    /\ EngineOff
    /\ fn \in {"codec", "tensor", "keys", "mutate"}
    /\ fn_in \in CASE fn = "codec" ->
                      [text : SeqsUpTo(Chars, MaxTextLen), key : KeyPermutations(alphabet)]
                 [] fn = "tensor" ->
                      [text : SeqsUpTo(Chars, MaxTensorLen), n : {2, 3, 4}]
                 [] fn = "keys" -> {<<>>}
                 [] fn = "mutate" -> MutateInputs
    /\ fn_out = <<>>

\* substitute_encrypt(text, key)
Encrypt ==
    /\ fn = "codec" /\ fn_out = <<>>
    /\ fn_out' = <<substitute_encrypt(fn_in.text, fn_in.key)>>
    /\ UNCHANGED <<engineVars, seedVars, wrapper, fn, fn_in>>

\* substitute_decrypt(encrypted_text, key)
Decrypt ==
    /\ fn = "codec" /\ Len(fn_out) = 1
    /\ fn_out' = Append(fn_out, substitute_decrypt(fn_out[1], fn_in.key))
    /\ UNCHANGED <<engineVars, seedVars, wrapper, fn, fn_in>>

\* transition_matrix(get_bigrams(text)) of the engine of order n
BuildTensor ==
    /\ fn = "tensor" /\ fn_out = <<>>
    /\ \E bigrams \in {get_bigrams(fn_in.text, fn_in.n)} :
          fn_out' = IF transition_matrix_raises(bigrams)
                    THEN [bigrams |-> bigrams, raised |-> "IndexError", TM |-> <<>>]
                    ELSE [bigrams |-> bigrams, raised |-> "",
                          TM |-> transition_matrix(bigrams, fn_in.n)]
    /\ UNCHANGED <<engineVars, seedVars, wrapper, fn, fn_in>>

\* generate_random_key(), the returned keys collected in call order
GenerateKey ==
    /\ fn = "keys" /\ Len(fn_out) < MaxKeyCalls
    /\ \E k \in generate_random_key : fn_out' = Append(fn_out, k)
    /\ UNCHANGED <<engineVars, seedVars, wrapper, fn, fn_in>>

\* The key proposal: the transposition in the loop of the base engine,
\* mutate_key_smart(key, decrypted_text, TM_ref) in the others; the branch
\* and the positions drawn are kept with the proposed key.
Mutate ==
    /\ fn = "mutate" /\ fn_out = <<>>
    /\ \E br \in (IF fn_in.v = "base" THEN {"simple"} ELSE {"simple", "smart"}) :
       \E d \in SwapDraws(br) :
           fn_out' = [branch |-> br, a |-> d[1], b |-> d[2],
                      key |-> mutate_key_smart(fn_in.v, fn_in.key, fn_in.text,
                                               fn_in.ref, br, d[1], d[2])]
    /\ UNCHANGED <<engineVars, seedVars, wrapper, fn, fn_in>>

NextLib == Encrypt \/ Decrypt \/ BuildTensor \/ GenerateKey \/ Mutate

SpecLib == InitLib /\ [][NextLib]_vars

(***************************************************************************)
(* Properties.                                                             *)
(***************************************************************************)
\* The library function of the session has been applied.
Applied == DOMAIN fn_out # {}

Annealing == {"2D", "3D", "4D"}

\* The number of length-n windows of txt that equal the n-gram g.
NumWindows(txt, g) ==
    Cardinality({k \in 1..Len(txt) :
        /\ k + Len(g) - 1 <= Len(txt)
        /\ \A j \in 1..Len(g) : txt[k + j - 1] = g[j]})

\* C1: for a key that is a permutation of the alphabet and any text,
\* decrypting the encrypted text under the same key gives the text back, and
\* a character outside the alphabet is left as it is by the encryption and
\* by the decryption.
C1_RoundTrip ==
    (fn = "codec" /\ Len(fn_out) = 2) =>
        /\ fn_out[2] = fn_in.text
        /\ \A k \in DOMAIN fn_in.text :
              fn_in.text[k] \notin Range(alphabet) =>
                  fn_out[1][k] = fn_in.text[k] /\ fn_out[2][k] = fn_out[1][k]

\* A text with a foreign character and an alphabet character went through
\* both operations under a key that changed it.
C1_Witness ==
    /\ fn = "codec" /\ Len(fn_out) = 2
    /\ Foreign \in Range(fn_in.text)
    /\ fn_out[1] # fn_in.text
    /\ fn_in.key # alphabet

\* C2: when a run from a valid start key ends, the returned score is at
\* least every score evaluated in the run (the start key's and each
\* candidate's), it is the score of the returned key, and the returned text
\* is the ciphertext decrypted under the returned key.
C2_ReturnsBest ==
    (pc = "done" /\ IsPermutation(start_key)) =>
        /\ ret[3] >= max_seen
        /\ ret[3] = evaluate(ret[1])
        /\ ret[2] = substitute_decrypt(text, ret[1])

\* C3: in the annealing engines best_score is at least the current score
\* whenever the loop is entered or iterated, and an iteration never lowers
\* it: it becomes the candidate's score (and best_key the candidate) exactly
\* when that score exceeds it, accepted or not.
C3_BestMonotone ==
    [][(variant \in Annealing /\ pc' = "loop") =>
          /\ best_score' >= p_current'
          /\ (pc = "loop" /\ i' = i + 1) =>
                /\ best_score' >= best_score
                /\ best_score' = Max({best_score, p_candidate'})
                /\ p_candidate' > best_score => best_key' = candidate_key'
                /\ p_candidate' <= best_score => best_key' = best_key]_vars

\* An annealing run whose best score was raised by a candidate and whose
\* current score then fell below it.
C3_Witness ==
    /\ variant \in Annealing /\ pc = "loop" /\ i = 2
    /\ best_score > p_current
    /\ best_key # start_key
    /\ IsPermutation(start_key)

\* C4: each loop iteration of a run from a valid start key appends exactly
\* one entry to plausibility_scores, the current score after the iteration's
\* accept/reject decision.
C4_AppendsPostDecision ==
    [][(pc = "loop" /\ i' = i + 1 /\ IsPermutation(start_key)) =>
          plausibility_scores' = Append(plausibility_scores, p_current')]_vars

\* C5: after a call with budget iter and a valid start key returns,
\* plausibility_scores holds exactly iter + 1 entries, the first being the
\* score of the call's start key.
C5_TrajectoryOfOneCall ==
    (pc = "done" /\ IsPermutation(start_key)) =>
        /\ Len(plausibility_scores) = iter + 1
        /\ plausibility_scores[1] = evaluate(start_key)

\* C6: in a run started from a permutation of the alphabet the current key,
\* the candidate key, the best key and the returned key are permutations of
\* the alphabet.
C6_KeysArePermutations ==
    (pc \in {"loop", "done"} /\ IsPermutation(start_key)) =>
        /\ IsPermutation(current_key)
        /\ candidate_key # NoKey => IsPermutation(candidate_key)
        /\ variant \in Annealing => IsPermutation(best_key)
        /\ pc = "done" => IsPermutation(ret[1])

\* A run from a valid key that returned another key after two iterations.
C6_Witness ==
    /\ pc = "done" /\ i = 2
    /\ IsPermutation(start_key)
    /\ ret[1] # start_key
    /\ candidate_key # current_key

\* C7: every key generate_random_key returns has the alphabet's length and
\* the alphabet's set of symbols, each symbol once.
C7_GeneratedKeyIsPermutation ==
    fn = "keys" =>
        \A c \in DOMAIN fn_out :
            /\ Len(fn_out[c]) = Len(alphabet)
            /\ Range(fn_out[c]) = Range(alphabet)
            /\ IsPermutation(fn_out[c])

\* Two calls returned different keys.
C7_Witness ==
    /\ fn = "keys" /\ Len(fn_out) >= 2
    /\ fn_out[1] # fn_out[2]

\* C8: a key string that is not a permutation of the alphabet is rejected
\* with InvalidKey where it is supplied: no instance holds one, and no call
\* enters the loop or returns with one.
C8_InvalidKeyRejected ==
    /\ pc \in {"loop", "done"} => IsPermutation(start_key)
    /\ (pc = "raised" /\ ~IsPermutation(start_key)) => raised = "InvalidKey"

\* C9: building the tensor of a text with a character outside the alphabet
\* raises nothing; the windows with such a character are skipped and the
\* others counted.
C9_ForeignWindowsSkipped ==
    (fn = "tensor" /\ Applied) =>
        /\ fn_out.raised = ""
        /\ \A g \in NGrams(fn_in.n) :
              fn_out.TM[g] = Max({1, NumWindows(fn_in.text, g)})

\* C10: for a text over the alphabet, get_bigrams yields
\* max(0, len(text) - n + 1) windows and each cell of the tensor holds the
\* number of windows equal to its n-gram when positive, and 1 otherwise.
C10_TensorCounts ==
    (fn = "tensor" /\ Applied /\ Range(fn_in.text) \subseteq Range(alphabet)) =>
        /\ fn_out.raised = ""
        /\ Len(fn_out.bigrams) = Max({0, Len(fn_in.text) - fn_in.n + 1})
        /\ \A g \in NGrams(fn_in.n) :
              /\ fn_out.TM[g] >= 1
              /\ fn_out.TM[g] = IF NumWindows(fn_in.text, g) > 0
                                THEN NumWindows(fn_in.text, g) ELSE 1

\* The order-2 tensor of "ABAB": cell (A, B) = 2, cell (B, A) = 1, the
\* others 1.
C10_Witness ==
    /\ fn = "tensor" /\ Applied
    /\ fn_in.n = 2
    /\ fn_in.text = <<alphabet[1], alphabet[2], alphabet[1], alphabet[2]>>
    /\ fn_out.TM[<<alphabet[1], alphabet[2]>>] = 2
    /\ fn_out.TM[<<alphabet[2], alphabet[1]>>] = 1
    /\ fn_out.TM[<<alphabet[1], alphabet[1]>>] = 1

\* C11: a call with a reference tensor whose number of dimensions is not the
\* engine's window length ends with an error raised before the loop: it
\* never enters the loop, returns, or raises after the start key was scored.
C11_MismatchReportedBeforeLoop ==
    (pc # "idle" /\ RefOrder(TM_ref) # Order(variant)) =>
        /\ pc = "raised"
        /\ p_current = NoScore
        /\ i = 0

\* C12: a call with budget 0 and a valid start key returns the start key,
\* the ciphertext decrypted under it and its score, and leaves a trajectory
\* of exactly one entry, that score.
C12_ZeroBudgetRun ==
    (pc = "done" /\ iter = 0 /\ IsPermutation(start_key)) =>
        /\ ret = <<start_key, substitute_decrypt(text, start_key), evaluate(start_key)>>
        /\ plausibility_scores = <<evaluate(start_key)>>

\* C13: two calls under the same seed, with the same engine class, start
\* key, budget, ciphertext and reference tensor, leave the same trajectory
\* and return the same key, text and score.
C13_SameSeedSameRun ==
    (pc = "done" /\ Len(prev) = 1 /\ prev[1].iter = iter) =>
        /\ plausibility_scores = prev[1].trajectory
        /\ ret = prev[1].ret

\* C14: of two runs on separate instances whose steps are interleaved, each
\* draws the random values it draws when it runs alone: the values the
\* seeded generator yields, from the first one on.
C14_RunsDrawAsAlone ==
    (fn = "engine" /\ DOMAIN other # {}) =>
        /\ drawn = SubSeq(seed, 1, Len(drawn))
        /\ other.drawn = SubSeq(seed, 1, Len(other.drawn))

\* C15: when execute() has ended: if text or TM_ref was never set it raised
\* ValueError and the engine was not run; if both were set, the engine was
\* called with the configured text, matrix and iteration count and with the
\* engine's start_key, and when that call returned, execute() returned its
\* tuple.
C15_Execute ==
    (DOMAIN wrapper # {} /\ wrapper.pc \in {"returned", "raised"}) =>
        IF wrapper.text = None \/ wrapper.TM_ref = None
        THEN /\ wrapper.error = "ValueError"
             /\ pc = "idle" /\ plausibility_scores = <<>>
        ELSE /\ text = wrapper.text[1]
             /\ TM_ref = wrapper.TM_ref[1]
             /\ iter = wrapper.iterations
             /\ start_key = self_start_key
             /\ pc = "done" => (wrapper.pc = "returned" /\ wrapper.result = Some(ret))

\* C16: in the 2D, 3D and 4D engines, at every iteration still to run, the
\* decryption handed to mutate_key_smart is the decryption of the text under
\* the current key of that iteration, also after earlier acceptances.
C16_ScansCurrentDecryption ==
    (pc = "loop" /\ i < iter /\ variant \in {"2D", "3D", "4D"} /\ IsPermutation(start_key)) =>
        decrypted_current = substitute_decrypt(text, current_key)

\* The windows of the decrypted text the targeted branch scores.
ScoredWindows(txt, n) ==
    {k \in DOMAIN get_bigrams(txt, n) : InAlphabet(get_bigrams(txt, n)[k])}

\* The first window of minimum reference count.
MinWindow(txt, ref, n) ==
    LET grams == get_bigrams(txt, n)
        W     == ScoredWindows(txt, n)
    IN  grams[Min({k \in W : \A j \in W : ref[grams[k]] <= ref[grams[j]]})]

\* The positions in gram of the first occurrences of its symbols found in key.
FirstFound(gram, key) ==
    {j \in DOMAIN gram : where(key, gram[j]) # {} /\ \A h \in 1..(j - 1) : gram[h] # gram[j]}

\* C17: the targeted branch of the 2D, 3D and 4D engines takes the first
\* window of minimum reference count and exchanges the key positions of the
\* first two distinct symbols of that window found in the key; the key is
\* unchanged only when fewer than two such symbols are found.
C17_TargetedSwap ==
    (fn = "mutate" /\ Applied /\ fn_in.v \in {"2D", "3D", "4D"}
       /\ fn_out.branch = "smart" /\ ScoredWindows(fn_in.text, Order(fn_in.v)) # {}) =>
        LET gram  == MinWindow(fn_in.text, fn_in.ref, Order(fn_in.v))
            found == FirstFound(gram, fn_in.key)
        IN  IF Cardinality(found) < 2 THEN fn_out.key = fn_in.key
            ELSE LET j1 == Min(found)
                     j2 == Min(found \ {j1})
                 IN  /\ fn_out.key = Swap(fn_in.key, Min(where(fn_in.key, gram[j1])),
                                          Min(where(fn_in.key, gram[j2])))
                     /\ fn_out.key # fn_in.key

\* C18: the uniform transposition (the proposal of the base engine and the
\* simple branch of the others) draws two distinct positions and exchanges
\* them: for a key that is a permutation of the alphabet the proposed key
\* differs from the key in exactly those two positions, each holding the
\* other's symbol.
C18_UniformTransposition ==
    (fn = "mutate" /\ Applied /\ fn_out.branch = "simple") =>
        /\ fn_out.a # fn_out.b
        /\ {k \in DOMAIN fn_in.key : fn_out.key[k] # fn_in.key[k]} = {fn_out.a, fn_out.b}
        /\ fn_out.key[fn_out.a] = fn_in.key[fn_out.b]
        /\ fn_out.key[fn_out.b] = fn_in.key[fn_out.a]
        /\ IsPermutation(fn_out.key)

\* The base engine proposed a key from a key other than the alphabet, the
\* second position drawn before the first.
C18_Witness ==
    /\ fn = "mutate" /\ Applied /\ fn_out.branch = "simple"
    /\ fn_in.v = "base" /\ fn_in.key # alphabet
    /\ fn_out.a > fn_out.b
    /\ fn_out.key # fn_in.key

\* C19: an iteration of the base engine replaces the current key and score
\* by the candidate's when the candidate's score is greater than the current
\* score, and otherwise only when the uniform draw is below 0.01; in every
\* other case the current key and score stay as they are.  The scores are
\* those the scorer gives on reference tensors of counts (no cell below 1),
\* a current score of 0 among them.
C19_BaseAcceptance ==
    [][(variant = "base" /\ pc = "loop" /\ pc' = "loop" /\ i' = i + 1) =>
          IF p_candidate' > p_current \/ below_threshold(drawn'[Len(drawn')])
          THEN current_key' = candidate_key' /\ p_current' = p_candidate'
          ELSE current_key' = current_key /\ p_current' = p_current]_vars

\* The base engine at current score 0 has rejected a candidate of score 0
\* on a draw above 0.01, after accepting one on a draw below it.
C19_Witness ==
    /\ variant = "base" /\ pc = "loop" /\ i = 2
    /\ p_current = 0 /\ p_candidate = 0
    /\ candidate_key # current_key
    /\ current_key # start_key
    /\ Len(drawn) = 4

\* C20: in the 2D, 3D and 4D engines the temperature of iteration i is
\* max(T_min, T_0 * cooling_rate^i): it is never below the minimum
\* temperature and never above the temperature of the iteration before,
\* whatever the budget.
C20_TemperatureSchedule ==
    (pc = "loop" /\ i < iter /\ variant \in {"2D", "3D", "4D"}) =>
        LET rate == IF variant = "4D" THEN ln_cooling_rate_4d ELSE ln_cooling_rate_2d(iter)
        IN  /\ Temperature(variant, iter, i)
                 = Max({ln_min_temperature, ln_initial_temperature + i * rate})
            /\ Temperature(variant, iter, i) >= ln_min_temperature
            /\ i > 0 => Temperature(variant, iter, i) <= Temperature(variant, iter, i - 1)

====
